---- MODULE Spec2Model ----
(***************************************************************************)
(* Model of the multiple-testing simulation study: the three decision      *)
(* procedures (statistical_methods.py), the metrics                        *)
(* (performance_metrics.py), the configuration (config.py), the mean       *)
(* generator (data_generation.py) and the simulation engine                *)
(* (simulation.py).                                                        *)
(*                                                                         *)
(* Numbers.  A Python float is modelled by an exact rational <<n, d>> in   *)
(* lowest terms with d > 0; NaN is <<0, 0>>.  Arithmetic is exact: the     *)
(* rounding of IEEE doubles is not modelled.  P-values and significance    *)
(* levels are whole multiples of 1e-7, so that 0.05 is 500000; the         *)
(* comparisons of the procedures depend on their ratios only.              *)
(***************************************************************************)
EXTENDS Integers, Sequences, FiniteSets, TLC

VARIABLES
    \* one call of each decision procedure on the same p-value vector
    pvalues, alpha, sorted_indices, proc_done, rej_bonf, rej_hoch, rej_bh,
    \* one call of each metric on the same (rejections, true_nulls)
    met_rejections, met_true_nulls, met_done, met_power, met_fdr,
    \* one call of create_config
    cfg_args, cfg_status, cfg_ret,
    \* one call of run_simulation_with_base_data: its arguments, its position,
    \* its locals, what it returned and the files written
    config, base_data, save_results, pc, rep, means, true_nulls,
    power_bonf, power_hoch, power_bh, fdr_bonf, fdr_hoch, fdr_bh,
    results, saved_files,
    \* what np.argsort has returned so far, as pairs <<vector, index vector>>:
    \* it is a function of its argument
    argsort_of,
    \* the replications of the current call in the order they were processed:
    \* the index, the noise row read and the p-values handed to each procedure
    log,
    \* what the previous call with the same arguments returned
    prev_results,
    \* one call of generate_alternative_means
    gen_args, gen_status, gen_counts, gen_means,
    \* one run of the script run_analysis.py: its position, the matrix the
    \* generator draws for each seed, the script's cache and results, and its
    \* calls of the generator and of the engine in the order they were made
    orch_pc, normal_draws, base_data_cache, all_results, orch_calls

procVars == <<pvalues, alpha, sorted_indices, proc_done, rej_bonf, rej_hoch, rej_bh>>
metVars == <<met_rejections, met_true_nulls, met_done, met_power, met_fdr>>
cfgVars == <<cfg_args, cfg_status, cfg_ret>>
arrayVars == <<power_bonf, power_hoch, power_bh, fdr_bonf, fdr_hoch, fdr_bh>>
engVars == <<config, base_data, save_results, pc, rep, means, true_nulls,
             arrayVars, results, saved_files, argsort_of, log, prev_results>>
genVars == <<gen_args, gen_status, gen_counts, gen_means>>
orchVars == <<orch_pc, normal_draws, base_data_cache, all_results, orch_calls>>
vars == <<procVars, metVars, cfgVars, engVars, genVars, orchVars>>

----------------------------------------------------------------------------
(* Bounds of the checked input sets.                                       *)

\* longest p-value vector drawn for the decision procedures
MaxM == 3
\* largest p-value of the drawn grid, in units
MaxP == 4
\* largest significance level of the drawn grid, in units
MaxAlpha == 4
\* longest boolean vector drawn for the metrics
MaxLen == 3
\* largest hypothesis count m of an engine run
MaxEngM == 2
\* largest replication count n_reps of an engine run
MaxReps == 2
\* largest m1 drawn for generate_alternative_means
MaxM1 == 20

----------------------------------------------------------------------------
(* Floats as exact rationals.                                              *)

Abs(x) == IF x < 0 THEN -x ELSE x

RECURSIVE GCD(_, _)
GCD(a, b) == IF b = 0 THEN a ELSE GCD(b, a % b)

\* the float n/d, d > 0
Rat(n, d) ==
    LET g == GCD(Abs(n), d) IN <<n \div g, d \div g>>

NaN == <<0, 0>>
IsNaN(x) == x[2] = 0

\* x <= y on floats; any comparison with NaN is False
Leq(x, y) == ~IsNaN(x) /\ ~IsNaN(y) /\ x[1] * y[2] <= y[1] * x[2]

\* x * k for an integer k
Times(x, k) == Rat(x[1] * k, x[2])

\* x + y
Plus(x, y) == Rat(x[1] * y[2] + y[1] * x[2], x[2] * y[2])

\* Python's seq[:n]
Take(seq, n) ==
    LET len == IF n < 0 THEN 0 ELSE IF n > Len(seq) THEN Len(seq) ELSE n
    IN  [i \in 1..len |-> seq[i]]

\* ndarray.sum() of a boolean vector
RECURSIVE SumBool(_)
SumBool(b) ==
    IF b = <<>> THEN 0 ELSE (IF Head(b) THEN 1 ELSE 0) + SumBool(Tail(b))

----------------------------------------------------------------------------
(* statistical_methods.py                                                  *)

Min(S) == CHOOSE x \in S : \A y \in S : x <= y

\* np.argsort(p): the index vectors that put p in ascending order.  The
\* default sort kind is not stable, so the order of tied entries is any.
\* Indices are 1-based here.
RECURSIVE ArgsortFrom(_, _)
ArgsortFrom(p, rest) ==
    IF rest = {} THEN {<<>>}
    ELSE LET lo == Min({p[i] : i \in rest})
         IN  UNION {{<<i>> \o s : s \in ArgsortFrom(p, rest \ {i})} :
                     i \in {j \in rest : p[j] = lo}}

argsort(p) == ArgsortFrom(p, DOMAIN p)

bonferroni_method_strict(p, a) ==
    LET m == Len(p)
        threshold == Rat(a, m)
    IN  [i \in 1..m |-> Leq(Rat(p[i], 1), threshold) /\ Rat(p[i], 1) # threshold]

\* bonferroni_method(pvalues, alpha)
bonferroni_method(p, a) ==
    LET m == Len(p)
        threshold == Rat(a, m)
    IN  [i \in 1..m |-> Leq(Rat(p[i], 1), threshold)]

\* the scan "for i in range(m, 0, -1)" of hochberg_method, from rank i down:
\* the first rank whose comparison succeeds, 0 if none does
RECURSIVE hochberg_scan(_, _, _)
hochberg_scan(sorted_pvalues, a, i) ==
    LET m == Len(sorted_pvalues) IN
    IF i < 1 THEN 0
    ELSE IF Leq(Rat(sorted_pvalues[i], 1), Rat(a, m + 1 - i)) THEN i
    ELSE hochberg_scan(sorted_pvalues, a, i - 1)

hochberg_method_unguarded(p, a, sorted) ==
    LET m == Len(p)
        sorted_pvalues == [i \in 1..m |-> p[sorted[i]]]
        k == hochberg_scan(sorted_pvalues, a, m)
        hit == {sorted[j] : j \in DOMAIN Take(sorted, k + 1)}
    IN  [i \in 1..m |-> i \in hit]

hochberg_method_unsorted(p, a, sorted) ==
    LET m == Len(p)
        sorted_pvalues == [i \in 1..m |-> p[sorted[i]]]
        k == hochberg_scan(sorted_pvalues, a, m)
        hit == IF k > 0 THEN DOMAIN Take(sorted, k + 1) ELSE {}
    IN  [i \in 1..m |-> i \in hit]

hochberg_method_short(p, a, sorted) ==
    LET m == Len(p)
        sorted_pvalues == [i \in 1..m |-> p[sorted[i]]]
        k == hochberg_scan(sorted_pvalues, a, m)
        hit == IF k > 0 THEN {sorted[j] : j \in DOMAIN Take(sorted, k - 1)} ELSE {}
    IN  [i \in 1..m |-> i \in hit]

\* hochberg_method(pvalues, alpha), given the index vector argsort returned
hochberg_method(p, a, sorted) ==
    LET m == Len(p)
        sorted_pvalues == [i \in 1..m |-> p[sorted[i]]]
        k == hochberg_scan(sorted_pvalues, a, m)
        hit == IF k > 0 THEN {sorted[j] : j \in DOMAIN Take(sorted, k + 1)} ELSE {}
    IN  [i \in 1..m |-> i \in hit]

bh_scan_rankless(sorted_pvalues, q, i) ==
    LET m == Len(sorted_pvalues)
        ok == {j \in 1..i : Leq(Rat(sorted_pvalues[j], 1), Times(Rat(1, m), q))}
    IN  IF ok = {} THEN 0 ELSE CHOOSE j \in ok : \A l \in ok : l <= j

\* the scan "for i in range(m, 0, -1)" of benjamini_hochberg_method
RECURSIVE bh_scan(_, _, _)
bh_scan(sorted_pvalues, q, i) ==
    LET m == Len(sorted_pvalues) IN
    IF i < 1 THEN 0
    ELSE IF Leq(Rat(sorted_pvalues[i], 1), Times(Rat(i, m), q)) THEN i
    ELSE bh_scan(sorted_pvalues, q, i - 1)

benjamini_hochberg_method_first_k(p, q, sorted) ==
    LET m == Len(p)
        sorted_pvalues == [i \in 1..m |-> p[sorted[i]]]
        k == bh_scan(sorted_pvalues, q, m)
        hit == IF k > 0 THEN {sorted[j] : j \in DOMAIN Take(sorted, k)} ELSE {}
    IN  [i \in 1..m |-> i \in hit]

\* benjamini_hochberg_method(pvalues, q), given the index vector argsort returned
benjamini_hochberg_method(p, q, sorted) ==
    LET m == Len(p)
        sorted_pvalues == [i \in 1..m |-> p[sorted[i]]]
        k == bh_scan(sorted_pvalues, q, m)
        hit == IF k > 0 THEN {sorted[j] : j \in DOMAIN Take(sorted, k + 1)} ELSE {}
    IN  [i \in 1..m |-> i \in hit]

----------------------------------------------------------------------------
(* performance_metrics.py                                                  *)

\* ~a and a & b on boolean vectors
Not(a) == [i \in DOMAIN a |-> ~a[i]]
And(a, b) == [i \in DOMAIN a |-> a[i] /\ b[i]]

compute_power_zero(rejections, nulls) ==
    LET false_nulls == Not(nulls)
        n_false_nulls == SumBool(false_nulls)
        true_positives == SumBool(And(rejections, false_nulls))
    IN  IF n_false_nulls = 0 THEN Rat(0, 1)
        ELSE Rat(true_positives, n_false_nulls)

compute_power(rejections, nulls) ==
    LET false_nulls == Not(nulls)
        n_false_nulls == SumBool(false_nulls)
        true_positives == SumBool(And(rejections, false_nulls))
    IN  IF n_false_nulls = 0 THEN NaN
        ELSE Rat(true_positives, n_false_nulls)

compute_fdr_nan(rejections, nulls) ==
    LET R == SumBool(rejections)
        V == SumBool(And(rejections, nulls))
    IN  IF R = 0 THEN NaN ELSE Rat(V, R)

compute_fdr(rejections, nulls) ==
    LET R == SumBool(rejections)
        V == SumBool(And(rejections, nulls))
    IN  IF R = 0 THEN Rat(0, 1) ELSE Rat(V, R)

----------------------------------------------------------------------------
(* config.py                                                               *)

Distributions == {"D", "E", "I"}

create_config_raises_never(m, m0, distribution, L, a, n_reps, seed) == FALSE

\* the failed assert of create_config, when there is one
create_config_raises(m, m0, distribution, L, a, n_reps, seed) ==
    distribution \notin Distributions

\* the dictionary create_config returns when no assert fails
create_config(m, m0, distribution, L, a, n_reps, seed) ==
    LET m1 == m - m0 IN
    [m |-> m, m0 |-> m0, m1 |-> m1, distribution |-> distribution,
     L |-> L, alpha |-> a, n_reps |-> n_reps, seed |-> seed]

----------------------------------------------------------------------------
(* statistical_methods.py: p-values                                        *)

\* 2 * (1 - stats.norm.cdf(z)) for a whole number z >= 0, in units of 1e-7
PValueTable(z) ==
    CASE z = 0 -> 10000000
      [] z = 1 -> 3173105
      [] z = 2 -> 455003
      [] z = 3 -> 26998
      [] z = 4 -> 633
      [] z = 5 -> 6
      [] OTHER -> 0

\* compute_pvalues(test_statistic), for statistics that are whole numbers
compute_pvalues(test_statistic) ==
    [i \in DOMAIN test_statistic |->
        PValueTable(Abs(test_statistic[i][1]) \div test_statistic[i][2])]

----------------------------------------------------------------------------
(* data_generation.py                                                      *)

RoundDown(n, d) == n \div d

\* np.round of the float n/d: to the nearest integer, halves to the even one
RoundHalfEven(n, d) ==
    LET q == n \div d
        r == n % d
    IN  IF 2 * r < d THEN q
        ELSE IF 2 * r > d THEN q + 1
        ELSE IF q % 2 = 0 THEN q ELSE q + 1

Weights(distribution) ==
    CASE distribution = "D" -> <<4, 3, 2, 1>>
      [] distribution = "E" -> <<1, 1, 1, 1>>
      [] distribution = "I" -> <<1, 2, 3, 4>>

Levels_descending(L) == <<Rat(L, 1), Rat(3 * L, 4), Rat(L, 2), Rat(L, 4)>>

\* line 26: the four signal levels
Levels(L) == <<Rat(L, 4), Rat(L, 2), Rat(3 * L, 4), Rat(L, 1)>>

\* [level] * count: the empty list when count <= 0
Repeat(x, count) == [i \in 1..count |-> x]

LevelCounts_unadjusted(m1, distribution) ==
    LET weights == Weights(distribution)
        wsum == weights[1] + weights[2] + weights[3] + weights[4]
    IN  [l \in 1..4 |-> RoundHalfEven(weights[l] * m1, wsum)]

\* the counts of the four levels, after the adjustment of the last one
LevelCounts(m1, distribution) ==
    LET weights == Weights(distribution)
        wsum == weights[1] + weights[2] + weights[3] + weights[4]
        counts == [l \in 1..4 |-> RoundHalfEven(weights[l] * m1, wsum)]
        diff == m1 - (counts[1] + counts[2] + counts[3] + counts[4])
    IN  IF diff # 0 THEN [counts EXCEPT ![4] = counts[4] + diff] ELSE counts

generate_alternative_means(m1, L, distribution) ==
    IF m1 = 0 THEN <<>>
    ELSE LET levels == Levels(L)
             counts == LevelCounts(m1, distribution)
         IN  Repeat(levels[1], counts[1]) \o Repeat(levels[2], counts[2])
               \o Repeat(levels[3], counts[3]) \o Repeat(levels[4], counts[4])

----------------------------------------------------------------------------
(* simulation.py: run_simulation_with_base_data, one call                  *)

Zeros_one_more(n) == [i \in 1..(n + 1) |-> Rat(0, 1)]

\* np.zeros(n)
Zeros(n) == [i \in 1..n |-> Rat(0, 1)]

\* the pickle save_simulation_results writes
save_simulation_results(res, cfg) == [config |-> cfg, results |-> res]

shape_asserts_columns_only(cfg, data) ==
    LET m == Len(data[1]) IN m = cfg.m

\* lines 77-79: the shape of base_data against the config; FALSE when an
\* assert fails
shape_asserts(cfg, data) ==
    LET n_reps == Len(data)
        m == Len(data[1])
    IN  m = cfg.m /\ n_reps = cfg.n_reps

\* lines 84-88: zeros, then the alternative means from index m0 on (a vector
\* of one entry is broadcast)
means_of(m, m0, m1, alt_means) ==
    [i \in 1..m |->
        IF m1 > 0 /\ i > m0
          THEN (IF Len(alt_means) = 1 THEN alt_means[1] ELSE alt_means[i - m0])
          ELSE Rat(0, 1)]

true_nulls_of_inclusive(m, m0) == [i \in 1..m |-> i - 1 <= m0]

\* line 91: np.arange(m) < m0
true_nulls_of(m, m0) == [i \in 1..m |-> i - 1 < m0]

\* lines 77-99: the shape asserts, the means, the indicator, the storage
Setup ==
    /\ pc = "call"
    /\ LET n_reps == Len(base_data)
           m == Len(base_data[1])
           m0 == config.m0
           m1 == config.m1
           alt_means == generate_alternative_means(m1, config.L, config.distribution)
       IN  IF ~shape_asserts(config, base_data)
             THEN /\ pc' = "AssertionError"
                  /\ UNCHANGED <<means, true_nulls, arrayVars>>
           ELSE IF m1 > 0 /\ Len(alt_means) \notin {m - m0, 1}
             THEN /\ pc' = "ValueError"
                  /\ UNCHANGED <<means, true_nulls, arrayVars>>
           ELSE /\ pc' = "loop"
                /\ means' = means_of(m, m0, m1, alt_means)
                /\ true_nulls' = true_nulls_of(m, m0)
                /\ power_bonf' = Zeros(n_reps)
                /\ power_hoch' = Zeros(n_reps)
                /\ power_bh' = Zeros(n_reps)
                /\ fdr_bonf' = Zeros(n_reps)
                /\ fdr_hoch' = Zeros(n_reps)
                /\ fdr_bh' = Zeros(n_reps)
    /\ UNCHANGED <<config, base_data, save_results, rep, results, saved_files,
                   argsort_of, log, prev_results>>
    /\ UNCHANGED <<procVars, metVars, cfgVars, genVars, orchVars>>

RepPvalues_first_row(r) ==
    compute_pvalues([i \in DOMAIN means |-> Plus(means[i], Rat(base_data[1][i], 1))])

\* the p-values of replication r (0-based), lines 110-113
RepPvalues(r) ==
    compute_pvalues([i \in DOMAIN means |-> Plus(means[i], Rat(base_data[r + 1][i], 1))])

base_data_after_rep_in_place(data, r, mu) ==
    [data EXCEPT ![r + 1] = [i \in DOMAIN mu |-> data[r + 1][i] + (mu[i][1] \div mu[i][2])]]

\* line 110: "means + base_data[rep, :]" builds a new array; the matrix is
\* only read
base_data_after_rep(data, r, mu) == data

loop_continues_short(r, n_reps) == r < n_reps - 1

\* lines 102, 107: "for rep in range(n_reps)" has a next index
loop_continues(r, n_reps) == r < n_reps

\* lines 107-127: one pass of the loop body, for replication rep
Replication ==
    /\ pc = "loop"
    /\ loop_continues(rep, Len(base_data))
    /\ \E p \in {RepPvalues(rep)} :
       LET known == {e \in argsort_of : e[1] = p} IN
       \E sorted \in (IF known = {} THEN argsort(p) ELSE {e[2] : e \in known}) :
       \E rej_b \in {bonferroni_method(p, config.alpha)},
          rej_h \in {hochberg_method(p, config.alpha, sorted)},
          rej_q \in {benjamini_hochberg_method(p, config.alpha, sorted)} :
             /\ power_bonf' = [power_bonf EXCEPT ![rep + 1] = compute_power(rej_b, true_nulls)]
             /\ power_hoch' = [power_hoch EXCEPT ![rep + 1] = compute_power(rej_h, true_nulls)]
             /\ power_bh' = [power_bh EXCEPT ![rep + 1] = compute_power(rej_q, true_nulls)]
             /\ fdr_bonf' = [fdr_bonf EXCEPT ![rep + 1] = compute_fdr(rej_b, true_nulls)]
             /\ fdr_hoch' = [fdr_hoch EXCEPT ![rep + 1] = compute_fdr(rej_h, true_nulls)]
             /\ fdr_bh' = [fdr_bh EXCEPT ![rep + 1] = compute_fdr(rej_q, true_nulls)]
             /\ argsort_of' = argsort_of \cup {<<p, sorted>>}
             /\ log' = Append(log, [rep |-> rep, noise |-> base_data[rep + 1],
                                    bonf |-> p, hoch |-> p, bh |-> p])
    /\ base_data' = base_data_after_rep(base_data, rep, means)
    /\ rep' = rep + 1
    /\ UNCHANGED <<config, save_results, pc, means, true_nulls,
                   results, saved_files, prev_results>>
    /\ UNCHANGED <<procVars, metVars, cfgVars, genVars, orchVars>>

\* lines 129-144: build the dictionary, save it if asked, return it
Return ==
    /\ pc = "loop"
    /\ ~loop_continues(rep, Len(base_data))
    /\ LET res == [config |-> config,
                   power_bonf |-> power_bonf, power_hoch |-> power_hoch,
                   power_bh |-> power_bh, fdr_bonf |-> fdr_bonf,
                   fdr_hoch |-> fdr_hoch, fdr_bh |-> fdr_bh]
       IN  /\ results' = <<res>>
           /\ saved_files' = IF save_results
                               THEN Append(saved_files, save_simulation_results(res, config))
                               ELSE saved_files
    /\ pc' = "returned"
    /\ UNCHANGED <<config, base_data, save_results, rep, means, true_nulls, arrayVars,
                   argsort_of, log, prev_results>>
    /\ UNCHANGED <<procVars, metVars, cfgVars, genVars, orchVars>>

\* test_reproducibility, lines 140-144: the caller keeps the first result and
\* calls again with the same config and the same matrix
CallAgain ==
    /\ pc = "returned"
    /\ prev_results = <<>>
    /\ prev_results' = results
    /\ results' = <<>>
    /\ pc' = "call"
    /\ rep' = 0
    /\ means' = <<>> /\ true_nulls' = <<>>
    /\ power_bonf' = <<>> /\ power_hoch' = <<>> /\ power_bh' = <<>>
    /\ fdr_bonf' = <<>> /\ fdr_hoch' = <<>> /\ fdr_bh' = <<>>
    /\ log' = <<>>
    /\ UNCHANGED <<config, base_data, save_results, saved_files, argsort_of>>
    /\ UNCHANGED <<procVars, metVars, cfgVars, genVars, orchVars>>

----------------------------------------------------------------------------
(* The calls of the pure functions.                                        *)

CallBonferroni ==
    /\ pvalues # <<>>
    /\ "bonferroni" \notin proc_done
    /\ rej_bonf' = bonferroni_method(pvalues, alpha)
    /\ proc_done' = proc_done \cup {"bonferroni"}
    /\ UNCHANGED <<pvalues, alpha, sorted_indices, rej_hoch, rej_bh>>
    /\ UNCHANGED <<metVars, cfgVars, engVars, genVars, orchVars>>

CallHochberg ==
    /\ pvalues # <<>>
    /\ "hochberg" \notin proc_done
    /\ rej_hoch' = hochberg_method(pvalues, alpha, sorted_indices)
    /\ proc_done' = proc_done \cup {"hochberg"}
    /\ UNCHANGED <<pvalues, alpha, sorted_indices, rej_bonf, rej_bh>>
    /\ UNCHANGED <<metVars, cfgVars, engVars, genVars, orchVars>>

CallBH ==
    /\ pvalues # <<>>
    /\ "bh" \notin proc_done
    /\ rej_bh' = benjamini_hochberg_method(pvalues, alpha, sorted_indices)
    /\ proc_done' = proc_done \cup {"bh"}
    /\ UNCHANGED <<pvalues, alpha, sorted_indices, rej_bonf, rej_hoch>>
    /\ UNCHANGED <<metVars, cfgVars, engVars, genVars, orchVars>>

CallComputePower ==
    /\ met_done # {"idle"}
    /\ "power" \notin met_done
    /\ met_power' = compute_power(met_rejections, met_true_nulls)
    /\ met_done' = met_done \cup {"power"}
    /\ UNCHANGED <<met_rejections, met_true_nulls, met_fdr>>
    /\ UNCHANGED <<procVars, cfgVars, engVars, genVars, orchVars>>

CallComputeFdr ==
    /\ met_done # {"idle"}
    /\ "fdr" \notin met_done
    /\ met_fdr' = compute_fdr(met_rejections, met_true_nulls)
    /\ met_done' = met_done \cup {"fdr"}
    /\ UNCHANGED <<met_rejections, met_true_nulls, met_power>>
    /\ UNCHANGED <<procVars, cfgVars, engVars, genVars, orchVars>>

CallCreateConfig ==
    /\ cfg_status = "call"
    /\ LET a == cfg_args IN
       IF create_config_raises(a.m, a.m0, a.distribution, a.L, a.alpha, a.n_reps, a.seed)
         THEN /\ cfg_status' = "AssertionError"
              /\ cfg_ret' = <<>>
         ELSE /\ cfg_status' = "returned"
              /\ cfg_ret' = <<create_config(a.m, a.m0, a.distribution, a.L, a.alpha,
                                            a.n_reps, a.seed)>>
    /\ UNCHANGED cfg_args
    /\ UNCHANGED <<procVars, metVars, engVars, genVars, orchVars>>

CallGenerateAlternativeMeans ==
    /\ gen_status = "call"
    /\ gen_counts' = IF gen_args.m1 = 0 THEN <<>>
                     ELSE LevelCounts(gen_args.m1, gen_args.distribution)
    /\ gen_means' = generate_alternative_means(gen_args.m1, gen_args.L,
                                               gen_args.distribution)
    /\ gen_status' = "returned"
    /\ UNCHANGED gen_args
    /\ UNCHANGED <<procVars, metVars, cfgVars, engVars, orchVars>>

----------------------------------------------------------------------------
(* Initial states: the inputs of the calls.                                *)

\* 0.05 and the default seed of create_config
Alpha005 == 500000
DefaultSeed == 123456789

IdleProc ==
    /\ pvalues = <<>> /\ alpha = 0 /\ sorted_indices = <<>> /\ proc_done = {}
    /\ rej_bonf = <<>> /\ rej_hoch = <<>> /\ rej_bh = <<>>

IdleMet ==
    /\ met_rejections = <<>> /\ met_true_nulls = <<>> /\ met_done = {"idle"}
    /\ met_power = <<>> /\ met_fdr = <<>>

IdleCfg == cfg_args = <<>> /\ cfg_status = "idle" /\ cfg_ret = <<>>

IdleEng ==
    /\ config = <<>> /\ base_data = <<>> /\ save_results = FALSE /\ pc = "idle"
    /\ rep = 0 /\ means = <<>> /\ true_nulls = <<>>
    /\ power_bonf = <<>> /\ power_hoch = <<>> /\ power_bh = <<>>
    /\ fdr_bonf = <<>> /\ fdr_hoch = <<>> /\ fdr_bh = <<>>
    /\ results = <<>> /\ saved_files = <<>>
    /\ argsort_of = {} /\ log = <<>> /\ prev_results = <<>>

IdleGen ==
    gen_args = <<>> /\ gen_status = "idle" /\ gen_counts = <<>> /\ gen_means = <<>>

IdleOrch ==
    /\ orch_pc = "idle" /\ normal_draws = <<>> /\ base_data_cache = <<>>
    /\ all_results = <<>> /\ orch_calls = <<>>

\* p-values of test_bonferroni_simple_case and test_bh_simple_case, alpha = 0.05
BonferroniExample ==
    [p |-> <<10000, 40000, 100000, 200000, 500000>>, a |-> Alpha005]
BHExample ==
    [p |-> <<10000, 40000, 100000, 200000, 500000,
             1000000, 2000000, 5000000, 8000000, 9000000>>, a |-> Alpha005]

ProcInputs ==
    {[p |-> v, a |-> x] : v \in UNION {[1..n -> 0..MaxP] : n \in 1..MaxM},
                          x \in 0..MaxAlpha}
      \cup {BonferroniExample, BHExample}

InitProc ==
    /\ \E in \in ProcInputs :
         /\ pvalues = in.p
         /\ alpha = in.a
         /\ sorted_indices \in argsort(in.p)
    /\ proc_done = {}
    /\ rej_bonf = <<>> /\ rej_hoch = <<>> /\ rej_bh = <<>>
    /\ IdleMet /\ IdleCfg /\ IdleEng /\ IdleGen /\ IdleOrch

\* the vectors of test_power_calculation and test_fdr_calculation
PowerExample ==
    [r |-> <<FALSE, FALSE, TRUE, TRUE, TRUE, FALSE, FALSE, TRUE, TRUE, TRUE>>,
     t |-> <<TRUE, TRUE, TRUE, TRUE, TRUE, FALSE, FALSE, FALSE, FALSE, FALSE>>]
FdrExample ==
    [r |-> <<TRUE, TRUE, TRUE, TRUE, FALSE, FALSE, FALSE, FALSE>>,
     t |-> <<TRUE, TRUE, FALSE, FALSE, FALSE, FALSE, TRUE, TRUE>>]

MetInputs ==
    UNION {{[r |-> x, t |-> y] : x \in [1..n -> BOOLEAN], y \in [1..n -> BOOLEAN]} :
           n \in 0..MaxLen}
      \cup {PowerExample, FdrExample}

InitMet ==
    /\ \E in \in MetInputs :
         /\ met_rejections = in.r
         /\ met_true_nulls = in.t
    /\ met_done = {}
    /\ met_power = <<>> /\ met_fdr = <<>>
    /\ IdleProc /\ IdleCfg /\ IdleEng /\ IdleGen /\ IdleOrch

CfgInputs ==
    [m : 1..2, m0 : -1..3, distribution : {"D", "E", "I", "X"},
     L : {-4, 0, 4}, alpha : {-Alpha005, 0, Alpha005}, n_reps : {-1, 0, 1, 2},
     seed : {DefaultSeed}]

InitCfg ==
    /\ cfg_args \in CfgInputs
    /\ cfg_status = "call"
    /\ cfg_ret = <<>>
    /\ IdleProc /\ IdleMet /\ IdleEng /\ IdleGen /\ IdleOrch

\* noise draws, in whole standard deviations
NoiseVals == {-1, 2}

\* configs of valid arguments, with L = 4 so that the four levels 1, 2, 3, 4
\* and the statistics are whole numbers
EngineConfigs ==
    {create_config(m, m0, d, 4, Alpha005, n, DefaultSeed) :
        m \in 1..MaxEngM, m0 \in 0..MaxEngM, d \in Distributions, n \in 1..MaxReps}

InitEng ==
    /\ config \in {c \in EngineConfigs : c.m0 <= c.m}
    /\ base_data \in UNION {[1..r -> [1..c -> NoiseVals]] : r \in 1..MaxReps, c \in 1..MaxEngM}
    /\ save_results \in BOOLEAN
    /\ pc = "call"
    /\ rep = 0 /\ means = <<>> /\ true_nulls = <<>>
    /\ power_bonf = <<>> /\ power_hoch = <<>> /\ power_bh = <<>>
    /\ fdr_bonf = <<>> /\ fdr_hoch = <<>> /\ fdr_bh = <<>>
    /\ results = <<>> /\ saved_files = <<>>
    /\ argsort_of = {} /\ log = <<>> /\ prev_results = <<>>
    /\ IdleProc /\ IdleMet /\ IdleCfg /\ IdleGen /\ IdleOrch

\* signal strengths drawn for generate_alternative_means
GenL == {1, 4, 5}

GenInputs == [m1 : 0..MaxM1, L : GenL, distribution : Distributions]

InitGen ==
    /\ gen_args \in GenInputs
    /\ gen_status = "call"
    /\ gen_counts = <<>> /\ gen_means = <<>>
    /\ IdleProc /\ IdleMet /\ IdleCfg /\ IdleEng /\ IdleOrch

----------------------------------------------------------------------------
(* run_analysis.py: the script that runs every configuration.              *)

\* lines 19-25: the script's parameters; the hypothesis counts
\* [4, 8, 16, 32, 64] and the 20000 replications are scaled down to the
\* engine's bounds
m_values == [i \in 1..MaxEngM |-> i]
null_proportions == <<<<3, 4>>, <<1, 2>>, <<1, 4>>, <<0, 1>>>>
distributions == <<"D", "E", "I">>
script_n_reps == MaxReps
base_seed == 123456789
L_setting == 5
alpha_setting == Alpha005

\* lines 68-73: the call's arguments "show_progress=False" and
\* "save_results=True" are written without a comma between them, so the
\* file is not a Python program: compiling it raises SyntaxError
script_compiles == FALSE

\* generate_base_data(config): the n_reps x m matrix of standard-normal draws
\* of the generator seeded with config.seed
generate_base_data(cfg) == normal_draws[cfg.seed]

\* lines 46-64: the configuration of the k-th simulation (from 0) in the order
\* of the three nested loops; m0 = int(m * null_prop)
SimConfig(k) ==
    LET m == m_values[k \div (Len(null_proportions) * Len(distributions)) + 1]
        null_prop == null_proportions[((k \div Len(distributions)) % Len(null_proportions)) + 1]
        dist == distributions[(k % Len(distributions)) + 1]
        m0 == (m * null_prop[1]) \div null_prop[2]
    IN  create_config(m, m0, dist, L_setting, alpha_setting, script_n_reps, base_seed + m)

\* lines 33-39: the configuration the base matrix of m is generated with
BaseConfig(m) ==
    create_config(m, 0, "E", L_setting, alpha_setting, script_n_reps, base_seed + m)

\* lines 14-77: python run_analysis.py, up to the end of the simulations
RunScript ==
    /\ orch_pc = "start"
    /\ IF ~script_compiles
         THEN /\ orch_pc' = "SyntaxError"
              /\ UNCHANGED <<base_data_cache, all_results, orch_calls>>
         ELSE LET total == Len(m_values) * Len(null_proportions) * Len(distributions)
                  cache == [m \in {m_values[i] : i \in DOMAIN m_values} |->
                               generate_base_data(BaseConfig(m))]
                  gens == [i \in DOMAIN m_values |->
                             [op |-> "generate_base_data",
                              config |-> BaseConfig(m_values[i]),
                              data |-> cache[m_values[i]]]]
                  sims == [k \in 1..total |->
                             [op |-> "run_simulation_with_base_data",
                              config |-> SimConfig(k - 1),
                              data |-> cache[SimConfig(k - 1).m]]]
                  key(c) == <<c.m, c.m0, c.distribution>>
                  last(q) == CHOOSE k \in 1..total :
                               /\ key(sims[k].config) = q
                               /\ \A j \in k + 1..total : key(sims[j].config) # q
              IN  /\ orch_pc' = "done"
                  /\ base_data_cache' = cache
                  /\ orch_calls' = gens \o sims
                  /\ all_results' = [q \in {key(sims[k].config) : k \in 1..total} |->
                                        sims[last(q)]]
    /\ UNCHANGED normal_draws
    /\ UNCHANGED <<procVars, metVars, cfgVars, engVars, genVars>>

\* the matrices the generator can draw for the first k hypothesis counts
RECURSIVE DrawsUpTo(_)
DrawsUpTo(k) ==
    IF k = 0 THEN {<<>>}
    ELSE {Append(d, x) : d \in DrawsUpTo(k - 1),
                         x \in [1..script_n_reps -> [1..m_values[k] -> NoiseVals]]}

InitOrch ==
    /\ orch_pc = "start"
    /\ \E d \in DrawsUpTo(Len(m_values)) :
         normal_draws = [seed \in {base_seed + m_values[i] : i \in DOMAIN m_values} |->
                            d[CHOOSE i \in DOMAIN m_values : base_seed + m_values[i] = seed]]
    /\ base_data_cache = <<>> /\ all_results = <<>> /\ orch_calls = <<>>
    /\ IdleProc /\ IdleMet /\ IdleCfg /\ IdleEng /\ IdleGen

----------------------------------------------------------------------------
(* Specifications.                                                         *)

Init == InitEng
Next == Setup \/ Replication \/ Return \/ CallAgain
Spec == Init /\ [][Next]_vars

\* the call runs on: the interpreter takes every step of the function that is
\* enabled (the caller is free to call again or not)
\* the runs checked for termination: the loop's bounds come from the shape of
\* the matrix alone, so the matrices drawn are those of every shape filled with
\* one noise value
LiveMatrices ==
    {[i \in 1..r |-> [j \in 1..c |-> v]] :
        r \in 1..MaxReps, c \in 1..MaxEngM, v \in NoiseVals}

InitLive == base_data \in LiveMatrices /\ InitEng

SpecLive ==
    InitLive /\ [][Next]_vars /\ WF_vars(Setup) /\ WF_vars(Replication) /\ WF_vars(Return)

NextProc == CallBonferroni \/ CallHochberg \/ CallBH
SpecProc == InitProc /\ [][NextProc]_vars

NextMet == CallComputePower \/ CallComputeFdr
SpecMet == InitMet /\ [][NextMet]_vars

NextCfg == CallCreateConfig
SpecCfg == InitCfg /\ [][NextCfg]_vars

NextGen == CallGenerateAlternativeMeans
SpecGen == InitGen /\ [][NextGen]_vars

NextOrch == RunScript
SpecOrch == InitOrch /\ [][NextOrch]_vars

----------------------------------------------------------------------------
(* Properties of the decision procedures (SpecProc).                       *)

\* the p-values in ascending order, p_(1) <= ... <= p_(m)
SortedP == [i \in DOMAIN pvalues |-> pvalues[sorted_indices[i]]]

Rejected(rej) == {i \in DOMAIN rej : rej[i]}

\* the rank an upward scan over the sorted p-values ends with, 0 if no rank
\* passes: BH compares p_(i) with (i/m) q, Hochberg with alpha / (m + 1 - i)
BHPassing == {i \in DOMAIN pvalues : SortedP[i] * Len(pvalues) <= i * alpha}
HochbergPassing == {i \in DOMAIN pvalues : SortedP[i] * (Len(pvalues) + 1 - i) <= alpha}
LastOf(S) == IF S = {} THEN 0 ELSE CHOOSE i \in S : \A j \in S : j <= i

\* the rejected p-values are the smallest ones
Smallest(rej) ==
    \A i, j \in DOMAIN rej : rej[i] /\ ~rej[j] => pvalues[i] <= pvalues[j]

\* C1: benjamini_hochberg_method rejects exactly k hypotheses, k the largest
\* rank with p_(k) <= (k/m) q as a brute-force upward scan finds it, and the
\* rejected hypotheses are the k smallest p-values.
C1_BHRejectsBruteForceRank ==
    "bh" \in proc_done =>
        /\ Cardinality(Rejected(rej_bh)) = LastOf(BHPassing)
        /\ Smallest(rej_bh)

\* C2: hochberg_method rejects exactly the i smallest p-values, i the largest
\* rank with p_(i) <= alpha / (m + 1 - i); the downward scan stops at the rank
\* the upward scan ends with.
C2_HochbergRejectsLargestRank ==
    "hochberg" \in proc_done =>
        /\ hochberg_scan(SortedP, alpha, Len(pvalues)) = LastOf(HochbergPassing)
        /\ Cardinality(Rejected(rej_hoch)) = LastOf(HochbergPassing)
        /\ Smallest(rej_hoch)

\* C3: bonferroni_method rejects index i iff p_i <= alpha/m, boundary
\* included, so it rejects as many as there are p-values <= alpha/m; 3 for the
\* p-values 0.001, 0.004, 0.010, 0.020, 0.050 at alpha = 0.05.
C3_BonferroniRule ==
    "bonferroni" \in proc_done =>
        /\ \A i \in DOMAIN pvalues :
             rej_bonf[i] <=> pvalues[i] * Len(pvalues) <= alpha
        /\ SumBool(rej_bonf)
             = Cardinality({i \in DOMAIN pvalues : pvalues[i] * Len(pvalues) <= alpha})
        /\ (pvalues = BonferroniExample.p /\ alpha = BonferroniExample.a
              => SumBool(rej_bonf) = 3)

C3_Witness ==
    /\ "bonferroni" \in proc_done
    /\ pvalues = BonferroniExample.p /\ alpha = BonferroniExample.a
    /\ rej_bonf[3] /\ ~rej_bonf[4]

\* C4: when no rank passes the threshold comparison of hochberg_method, resp.
\* benjamini_hochberg_method, the procedure rejects nothing.
C4_NoRankNoRejection ==
    /\ "hochberg" \in proc_done /\ HochbergPassing = {} => Rejected(rej_hoch) = {}
    /\ "bh" \in proc_done /\ BHPassing = {} => Rejected(rej_bh) = {}

C4_Witness ==
    /\ {"hochberg", "bh"} \subseteq proc_done
    /\ HochbergPassing = {} /\ BHPassing = {}
    /\ Len(pvalues) > 1

----------------------------------------------------------------------------
(* Properties of the metrics (SpecMet).                                    *)

FalseNulls == {i \in DOMAIN met_true_nulls : ~met_true_nulls[i]}
MetRejected == {i \in DOMAIN met_rejections : met_rejections[i]}

\* C7: compute_power is (rejected and not true null) / (not true null) when
\* some index is not a true null, and NaN, not 0, when every index is a true
\* null; 3/5 on the vectors of test_power_calculation.
C7_PowerValue ==
    "power" \in met_done =>
        /\ FalseNulls # {} =>
             /\ met_power[2] > 0
             /\ met_power[1] * Cardinality(FalseNulls)
                  = Cardinality(MetRejected \cap FalseNulls) * met_power[2]
        /\ FalseNulls = {} => IsNaN(met_power) /\ met_power # <<0, 1>>
        /\ (met_rejections = PowerExample.r /\ met_true_nulls = PowerExample.t
              => met_power = <<3, 5>>)

C7_Witness ==
    /\ "power" \in met_done
    /\ met_rejections = PowerExample.r /\ met_true_nulls = PowerExample.t
    /\ met_power = <<3, 5>>

\* C8: compute_fdr is (rejected and true null) / (rejected) when some index
\* is rejected, and exactly 0.0, never NaN, when none is; 2/4 on the vectors
\* of test_fdr_calculation.
C8_FdrValue ==
    "fdr" \in met_done =>
        /\ MetRejected # {} =>
             /\ met_fdr[2] > 0
             /\ met_fdr[1] * Cardinality(MetRejected)
                  = Cardinality(MetRejected \ FalseNulls) * met_fdr[2]
        /\ MetRejected = {} => met_fdr = <<0, 1>> /\ ~IsNaN(met_fdr)
        /\ (met_rejections = FdrExample.r /\ met_true_nulls = FdrExample.t
              => met_fdr[1] * 4 = 2 * met_fdr[2])

C8_Witness ==
    /\ "fdr" \in met_done
    /\ met_rejections = FdrExample.r /\ met_true_nulls = FdrExample.t
    /\ met_fdr = <<1, 2>>

----------------------------------------------------------------------------
(* Properties of the engine (Spec) and of create_config (SpecCfg).         *)

ShapeMismatch ==
    Len(base_data) # config.n_reps \/ Len(base_data[1]) # config.m

\* C9: with a noise matrix that has not n_reps rows and m columns,
\* run_simulation_with_base_data fails with an assertion error before any
\* replication is processed: nothing is returned and no file is saved.
C9_ShapeMismatchFailsFast ==
    pc # "call" /\ ShapeMismatch =>
        /\ pc = "AssertionError"
        /\ rep = 0
        /\ arrayVars = <<<<>>, <<>>, <<>>, <<>>, <<>>, <<>>>>
        /\ results = <<>>
        /\ saved_files = <<>>

C9_Witness ==
    /\ pc = "AssertionError"
    /\ save_results
    /\ Len(base_data[1]) = config.m
    /\ Len(base_data) # config.n_reps

InvalidArgs(a) ==
    \/ a.m0 < 0 \/ a.m0 > a.m
    \/ a.n_reps <= 0
    \/ a.alpha <= 0
    \/ a.L <= 0

\* C10: create_config fails, returning no config, whenever m0 is outside
\* [0, m] or n_reps, alpha or L is not positive.
C10_InvalidConfigRejected ==
    cfg_status # "call" /\ InvalidArgs(cfg_args) =>
        cfg_status = "AssertionError" /\ cfg_ret = <<>>

\* C11: create_config fails for every distribution code other than D, E, I,
\* and every config it returns has such a code and m0 + m1 = m.
C11_DistributionChecked ==
    cfg_status # "call" =>
        /\ cfg_args.distribution \notin {"D", "E", "I"}
             => cfg_status = "AssertionError" /\ cfg_ret = <<>>
        /\ \A i \in DOMAIN cfg_ret :
             /\ cfg_ret[i].distribution \in {"D", "E", "I"}
             /\ cfg_ret[i].m0 + cfg_ret[i].m1 = cfg_ret[i].m

C11_Witness ==
    /\ cfg_status = "AssertionError"
    /\ cfg_args.distribution = "X"
    /\ cfg_args.m0 <= cfg_args.m

----------------------------------------------------------------------------
(* Properties of one engine run and of its repetition (Spec).              *)

ResultFields ==
    {"power_bonf", "power_hoch", "power_bh", "fdr_bonf", "fdr_hoch", "fdr_bh"}

\* C12: a second call of run_simulation_with_base_data with the same config
\* and the same noise matrix returns, field by field and entry by entry, the
\* arrays the first call returned (NaN equal to NaN).
C12_Reproducible ==
    pc = "returned" /\ prev_results # <<>> =>
        \A f \in ResultFields : results[1][f] = prev_results[1][f]

C12_Witness ==
    /\ pc = "returned" /\ prev_results # <<>>
    /\ Len(base_data) = 2
    /\ results[1].power_bonf[1] # results[1].power_bonf[2]
    /\ results[1].power_bh[1] # results[1].power_bh[2]

\* the p-values of the statistic means + row r (0-based) of the noise matrix
MeanValue(i) == means[i][1] \div means[i][2]
ExpectedPvalues(r) ==
    [i \in 1..config.m |-> PValueTable(Abs(MeanValue(i) + base_data[r + 1][i]))]

\* C13: in every replication the three procedures get one and the same
\* p-value vector, that of means + row rep of the supplied matrix; the mean
\* vector does not change during the loop and the matrix is never written.
C13_SameDataForAll ==
    /\ [](\A k \in DOMAIN log :
            /\ log[k].noise = base_data[log[k].rep + 1]
            /\ log[k].bonf = ExpectedPvalues(log[k].rep)
            /\ log[k].hoch = log[k].bonf
            /\ log[k].bh = log[k].bonf)
    /\ [][/\ base_data' = base_data
          /\ pc = "loop" => means' = means]_vars

C13_Witness ==
    /\ Len(log) = 2
    /\ log[1].bonf # log[2].bonf
    /\ config.m1 > 0

\* what np.argsort returned for the p-values of replication r
SortedOf(r) == (CHOOSE e \in argsort_of : e[1] = ExpectedPvalues(r))[2]

\* the six metrics of replication r (0-based)
MetricOf(f, r) ==
    LET p == ExpectedPvalues(r)
        nulls == [i \in 1..config.m |-> i <= config.m0]
    IN  CASE f = "power_bonf" -> compute_power(bonferroni_method(p, config.alpha), nulls)
          [] f = "power_hoch" ->
               compute_power(hochberg_method(p, config.alpha, SortedOf(r)), nulls)
          [] f = "power_bh" ->
               compute_power(benjamini_hochberg_method(p, config.alpha, SortedOf(r)), nulls)
          [] f = "fdr_bonf" -> compute_fdr(bonferroni_method(p, config.alpha), nulls)
          [] f = "fdr_hoch" ->
               compute_fdr(hochberg_method(p, config.alpha, SortedOf(r)), nulls)
          [] f = "fdr_bh" ->
               compute_fdr(benjamini_hochberg_method(p, config.alpha, SortedOf(r)), nulls)

\* C14: a successful run returns the config and the six fields, each of
\* exactly n_reps entries, entry rep holding the metric of replication rep.
C14_ResultRecord ==
    pc = "returned" =>
        /\ Len(results) = 1
        /\ DOMAIN results[1] = ResultFields \cup {"config"}
        /\ results[1].config = config
        /\ \A f \in ResultFields :
             /\ Len(results[1][f]) = config.n_reps
             /\ \A r \in 0..(config.n_reps - 1) :
                  results[1][f][r + 1] = MetricOf(f, r)

C14_Witness ==
    /\ pc = "returned"
    /\ config.n_reps = 2
    /\ config.m1 > 0
    /\ results[1].power_hoch[1] # results[1].power_hoch[2]

In01(x) == x[2] > 0 /\ 0 <= x[1] /\ x[1] <= x[2]

----------------------------------------------------------------------------
(* Properties of generate_alternative_means (SpecGen).                     *)

\* the entry x is the level (k/4) L
IsLevel(x, k, L) == x[2] > 0 /\ x[1] * 4 = k * L * x[2]

\* how many entries of the returned vector are the level (k/4) L
CountOfLevel(k) ==
    Cardinality({i \in DOMAIN gen_means : IsLevel(gen_means[i], k, gen_args.L)})

\* C16: generate_alternative_means returns exactly m1 entries, the level
\* counts summing to m1, none when m1 = 0, and every entry is one of the
\* levels L/4, L/2, 3L/4, L.
C16_LengthAndLevels ==
    gen_status = "returned" =>
        /\ Len(gen_means) = gen_args.m1
        /\ gen_args.m1 = 0 => gen_means = <<>>
        /\ gen_args.m1 > 0 =>
             gen_counts[1] + gen_counts[2] + gen_counts[3] + gen_counts[4] = gen_args.m1
        /\ CountOfLevel(1) + CountOfLevel(2) + CountOfLevel(3) + CountOfLevel(4)
             = gen_args.m1
        /\ \A i \in DOMAIN gen_means :
             \E k \in 1..4 : IsLevel(gen_means[i], k, gen_args.L)

C16_Witness ==
    /\ gen_status = "returned"
    /\ gen_args.m1 = 6 /\ gen_args.distribution = "E"
    /\ Len(gen_means) = 6
    /\ gen_counts = <<2, 2, 2, 0>>

\* c is n/d rounded to a nearest integer
IsRounded(c, n, d) == 2 * Abs(c * d - n) <= d

SpecWeights ==
    CASE gen_args.distribution = "D" -> <<4, 3, 2, 1>>
      [] gen_args.distribution = "E" -> <<1, 1, 1, 1>>
      [] gen_args.distribution = "I" -> <<1, 2, 3, 4>>

SpecWeightSum == SpecWeights[1] + SpecWeights[2] + SpecWeights[3] + SpecWeights[4]

\* C17: the count of each level is round(weight / sum(weights) * m1), the
\* residual goes to the last level only, and no count is negative for
\* m1 >= 1; m1 = 10, L = 4, distribution I gives the counts 1, 2, 3, 4.
C17_RoundedCounts ==
    gen_status = "returned" /\ gen_args.m1 >= 1 =>
        /\ \A k \in 1..3 : IsRounded(gen_counts[k], SpecWeights[k] * gen_args.m1, SpecWeightSum)
        /\ \E c \in 0..gen_args.m1 :
             /\ IsRounded(c, SpecWeights[4] * gen_args.m1, SpecWeightSum)
             /\ gen_counts[4]
                  = c + (gen_args.m1 - (gen_counts[1] + gen_counts[2] + gen_counts[3] + c))
        /\ \A k \in 1..4 : gen_counts[k] >= 0 /\ CountOfLevel(k) = gen_counts[k]
        /\ (gen_args.m1 = 10 /\ gen_args.L = 4 /\ gen_args.distribution = "I"
              => gen_counts = <<1, 2, 3, 4>>)

C17_Witness ==
    /\ gen_status = "returned"
    /\ gen_args.m1 = 10 /\ gen_args.L = 4 /\ gen_args.distribution = "I"
    /\ CountOfLevel(1) = 1 /\ CountOfLevel(2) = 2
    /\ CountOfLevel(3) = 3 /\ CountOfLevel(4) = 4

\* C18: the vector generate_alternative_means returns is sorted ascending.
C18_SortedAscending ==
    gen_status = "returned" =>
        \A i \in 1..(Len(gen_means) - 1) :
            gen_means[i][1] * gen_means[i + 1][2] <= gen_means[i + 1][1] * gen_means[i][2]

C18_Witness ==
    /\ gen_status = "returned"
    /\ Len(gen_means) >= 4
    /\ CountOfLevel(1) > 0 /\ CountOfLevel(2) > 0
    /\ CountOfLevel(3) > 0 /\ CountOfLevel(4) > 0

----------------------------------------------------------------------------
(* Properties of the engine's means and of its loop (Spec, SpecLive).      *)

\* C19: the mean vector has length m, 0 at the indices below m0 and the
\* alternative means in their order from m0 on; the indicator is True exactly
\* below m0; so an index is a true null iff its mean is 0; neither changes
\* during the run.
C19_MeansAndIndicator ==
    /\ [](pc \in {"loop", "returned"} =>
            LET alt == generate_alternative_means(config.m1, config.L, config.distribution)
            IN  /\ Len(means) = config.m /\ Len(true_nulls) = config.m
                /\ \A i \in 1..config.m :
                     /\ i <= config.m0 => means[i] = <<0, 1>>
                     /\ i > config.m0 => means[i] = alt[i - config.m0]
                     /\ true_nulls[i] <=> i - 1 < config.m0
                     /\ true_nulls[i] <=> means[i][1] = 0)
    /\ [][pc = "loop" => means' = means /\ true_nulls' = true_nulls]_vars

C19_Witness ==
    /\ pc = "loop" /\ rep = 1
    /\ config.m0 = 1 /\ config.m1 = 1
    /\ means = <<<<0, 1>>, <<4, 1>>>>
    /\ true_nulls = <<TRUE, FALSE>>

Arrays == <<power_bonf, power_hoch, power_bh, fdr_bonf, fdr_hoch, fdr_bh>>

\* C20: a call with a matrix of the right shape terminates; it processes the
\* replications 0, 1, ..., n_reps - 1 once each in this order, an iteration
\* writing entry rep of the six arrays only; a run completes all of them or
\* fails the shape asserts before the first.
C20_SinglePassTerminates ==
    /\ [](pc # "idle" =>
            /\ pc \in {"call", "loop", "returned", "AssertionError"}
            /\ Len(log) = rep
            /\ \A k \in DOMAIN log : log[k].rep = k - 1
            /\ pc = "returned" => rep = config.n_reps
            /\ pc = "AssertionError" => rep = 0)
    /\ [][pc = "loop" /\ pc' = "loop" =>
            /\ rep' = rep + 1
            /\ \A a \in 1..6 :
                 /\ DOMAIN Arrays'[a] = DOMAIN Arrays[a]
                 /\ \A i \in DOMAIN Arrays[a] : i # rep + 1 => Arrays'[a][i] = Arrays[a][i]]_vars
    /\ (pc = "call" /\ ~ShapeMismatch) ~> (pc = "returned")

C20_Witness ==
    /\ pc = "returned"
    /\ rep = 2 /\ config.n_reps = 2
    /\ Len(log) = 2

----------------------------------------------------------------------------
(* Properties of the script (SpecOrch).                                    *)

GeneratedFor(m) ==
    {j \in DOMAIN orch_calls :
        orch_calls[j].op = "generate_base_data" /\ orch_calls[j].config.m = m}
SimulatedFor(m) ==
    {j \in DOMAIN orch_calls :
        orch_calls[j].op = "run_simulation_with_base_data" /\ orch_calls[j].config.m = m}

\* C21: when the script has run, the base matrix of every m was generated
\* exactly once, with seed base_seed + m, before every simulation of that m,
\* and every simulation of that m (one per null proportion and distribution)
\* received that matrix.
C21_BaseMatrixOncePerM ==
    orch_pc \notin {"idle", "start"} =>
        \A i \in DOMAIN m_values :
            LET m == m_values[i] IN
            /\ Cardinality(GeneratedFor(m)) = 1
            /\ Cardinality(SimulatedFor(m)) = Len(null_proportions) * Len(distributions)
            /\ \A g \in GeneratedFor(m) :
                 /\ orch_calls[g].config.seed = base_seed + m
                 /\ \A j \in SimulatedFor(m) :
                      g < j /\ orch_calls[j].data = orch_calls[g].data

----------------------------------------------------------------------------
(* Further properties of the decision procedures (SpecProc).               *)

\* the power line 115-123 of the engine computes from a rejection vector when
\* the first m0 hypotheses are the true nulls
PowerOf(rej, m0) == compute_power(rej, true_nulls_of(Len(rej), m0))

C23_DownwardClosed ==
    /\ "hochberg" \in proc_done =>
         /\ \A i, j \in DOMAIN pvalues :
              rej_hoch[i] /\ pvalues[j] < pvalues[i] => rej_hoch[j]
         /\ Smallest(rej_hoch)
    /\ "bh" \in proc_done =>
         /\ \A i, j \in DOMAIN pvalues :
              rej_bh[i] /\ pvalues[j] < pvalues[i] => rej_bh[j]
         /\ Smallest(rej_bh)

C23_Witness ==
    /\ {"hochberg", "bh"} \subseteq proc_done
    /\ \E i, j \in DOMAIN pvalues :
         rej_hoch[i] /\ ~rej_hoch[j] /\ pvalues[i] < pvalues[j] /\ sorted_indices[1] # 1
    /\ \E i, j \in DOMAIN pvalues :
         rej_bh[i] /\ ~rej_bh[j] /\ pvalues[i] = pvalues[j]

====
